---- MODULE Spec2Model ----
(***************************************************************************)
(* State-machine model of the imgui-example image viewer: the Canvas view  *)
(* (image, texture, shader programs, zoom, render-callback relay), the     *)
(* Dialog view with its menu flags, and the Toolbar command flags.         *)
(***************************************************************************)
EXTENDS Integers, Sequences, FiniteSets, TLC

(* ------------------------------ bounds -------------------------------- *)

\* number of Canvas objects that exist in the process
NumCanvases == 2
\* number of state-changing Canvas calls explored in one behaviour
MaxOps == 3
\* number of button and menu clicks explored in one behaviour
MaxClicks == 3
\* number of zoom_in / zoom_out calls explored (each) in the zoom behaviours
MaxZoomSteps == 152

(* --------------------------- float m_zoom ----------------------------- *)

\* largest binary exponent of a finite IEEE-754 single (2^127 is finite)
FloatMaxExp == 127
\* exponent of the smallest positive (subnormal) IEEE-754 single, 2^-149
FloatMinExp == -149

Pow2(e) == [kind |-> "pow2", exp |-> e]
FloatInf == [kind |-> "inf", exp |-> 0]
FloatZero == [kind |-> "zero", exp |-> 0]
\* the literal 1.0f
FloatOne == Pow2(0)

\* a zoom_in that quadruples the scale
FloatMul4(z) ==
  IF z.kind = "pow2"
    THEN IF z.exp + 1 < FloatMaxExp THEN Pow2(z.exp + 2) ELSE FloatInf
    ELSE z

\* z * 2.0f in single precision: exact, except that it overflows to +inf
FloatMul2(z) ==
  IF z.kind = "pow2"
    THEN IF z.exp < FloatMaxExp THEN Pow2(z.exp + 1) ELSE FloatInf
    ELSE z

\* z / 2.0f in single precision: exact, except that 2^-149 / 2 rounds to 0
FloatDiv2(z) ==
  IF z.kind = "pow2"
    THEN IF z.exp > FloatMinExp THEN Pow2(z.exp - 1) ELSE FloatZero
    ELSE z

(* ------------------------------ images -------------------------------- *)

\* pixel contents of an image: channel count and one tuple per pixel
NoData == [ch |-> 0, px |-> <<>>]
NatureContent == [ch |-> 3, px |-> <<<<9, 6, 3>>, <<0, 3, 6>>, <<4, 4, 7>>>>]
GrassContent == [ch |-> 3, px |-> <<<<2, 8, 2>>, <<1, 7, 1>>, <<3, 9, 0>>>>]
GrayContent == [ch |-> 1, px |-> <<<<5>>, <<1>>, <<8>>>>]

NaturePath == "./assets/images/nature.png"
GrassPath == "./assets/images/grass_logo.png"
GrayPath == "../assets/gray.png"
MissingPath == "../assets/missing.png"
TmpPath == "/tmp/image.png"
Paths == {NaturePath, GrassPath, GrayPath, MissingPath, TmpPath}

RECURSIVE SumSeq(_)
SumSeq(s) == IF s = <<>> THEN 0 ELSE Head(s) + SumSeq(Tail(s))

\* ImageUtils::to_grayscale / ImageUtils::to_gray: a new 1-channel buffer
\* holding the mean of each pixel's channels
ToGrayContent(img) ==
  IF img.ch = 0 THEN NoData
  ELSE [ch |-> 1,
        px |-> [i \in 1..Len(img.px) |-> <<SumSeq(img.px[i]) \div img.ch>>]]

\* ImageUtils::blur: averaging filter; the window covers the whole of the
\* small images of the model, so every pixel becomes the per-channel mean
BlurContent(img) ==
  IF img.ch = 0 THEN NoData
  ELSE [ch |-> img.ch,
        px |-> [i \in 1..Len(img.px) |->
                 [k \in 1..img.ch |->
                   SumSeq([j \in 1..Len(img.px) |-> img.px[j][k]])
                     \div Len(img.px)]]]

\* ImageVector::draw_circle: paints the stroke colour at the mouse position
CircleContent(img, pos) ==
  IF img.ch = 0 \/ pos \notin 1..Len(img.px) THEN img
  ELSE [img EXCEPT !.px[pos] = [k \in 1..img.ch |-> 0]]

\* mouse positions over the image (0: outside of it)
MousePositions == 0..Len(NatureContent.px)

(* ------------------------- shader programs ---------------------------- *)

Canvases == 1..NumCanvases
\* the application's canvas, the one the single-view behaviours drive
TheCanvas == CHOOSE c \in Canvases : \A d \in Canvases : c <= d

ProgramKeys == {"color", "grayscale", "monochrome"}
\* keys a caller may pass to set_shader; "sepia" is in no collection
RequestKeys == ProgramKeys \cup {"sepia"}

KeyIndex(key) ==
  CASE key = "color" -> 1
    [] key = "grayscale" -> 2
    [] key = "monochrome" -> 3

\* GL names are unique among live objects: every Program gets its own
ProgramId(c, key) == Cardinality(ProgramKeys) * (c - 1) + KeyIndex(key)
DialogProgramId == Cardinality(ProgramKeys) * NumCanvases + 1
TextureId(c) == c
DialogTextureId == NumCanvases + 1
ProgramIds == 1..DialogProgramId
TextureIds == 1..DialogTextureId

\* Program(path_vert, path_frag): the compiled program, failed or not
Program(id, hasFailed) == [id |-> id, failed |-> hasFailed]

(* ------------------------------ state --------------------------------- *)

VARIABLES
  canvas_ok,      \* Canvas::Canvas returned (no ShaderException)
  m_programs,     \* Canvas::m_programs: key -> Program
  m_program,      \* Canvas::m_program: the entry of m_programs pointed to
  m_image,        \* Canvas::m_image: [inst, ch, px]
  m_texture,      \* Canvas::m_texture: [id, ch, px], the GPU copy
  m_zoom,         \* Canvas::m_zoom
  callback_data,  \* Canvas::callback_data: <<program id, texture id>>
  draw_list,      \* commands appended to the frame's draw lists, in order
  frame,          \* "idle" or "build" (between NewFrame and RenderDrawData)
  click_mode,     \* Mouse::click_mode
  prog_releases,  \* GL: number of release calls made on each program name
  tex_releases,   \* GL: number of release calls made on each texture name
  image_count,    \* number of Image instances created so far
  image_released, \* the Image instances whose buffer has been released
  fs,             \* filesystem: path -> pixel contents
  exc,            \* exception thrown by the last Canvas call, or "none"
  last_op,        \* per canvas: names of the last two Canvas calls
  last_key,       \* per canvas: the key of the last set_shader call
  n_ops,          \* number of Canvas calls made (explored up to MaxOps)
  n_free,         \* per canvas: number of Canvas::free calls
  n_zoom_in,      \* per canvas: number of zoom_in calls
  n_zoom_out      \* per canvas: number of zoom_out calls

programVars == <<m_programs, m_program>>
imageVars == <<m_image, m_texture, image_count, image_released, fs>>
zoomVars == <<m_zoom, n_zoom_in, n_zoom_out>>
relayVars == <<callback_data, draw_list, frame>>
glVars == <<prog_releases, tex_releases, n_free>>
canvasVars == <<canvas_ok, programVars, imageVars, zoomVars, relayVars,
                glVars, click_mode, exc, last_op, last_key>>

VARIABLES
  toolbar,        \* Toolbar's static command flags, by name
  hover_mode,     \* Toolbar::hover_mode (radio button)
  menu,           \* Menu::draw_circle, Menu::draw_line
  clicks,         \* per command flag: number of clicks that set it
  runs            \* per command flag: number of times its command ran

toolbarVars == <<toolbar, hover_mode, menu, clicks, runs>>

VARIABLES
  dialog_ok,      \* Dialog::Dialog returned (no ShaderException)
  d_program,      \* Dialog::m_program
  d_image,        \* Dialog::m_image: [inst, ch, px]
  d_texture,      \* Dialog::m_texture: [id, ch, px]
  dialog_menu,    \* render_menu's statics open_image, quit_app, to_gray
  file_dialog,    \* ImGuiFileDialog "ChooseFileKey": "closed" or "open"
  file_dialog_ok, \* ImGuiFileDialog::IsOk() of the dialog closed last
  window_closed,  \* m_window.close() has been called
  n_dialog_free   \* number of Dialog::free calls

dialogVars == <<dialog_ok, d_program, d_image, d_texture, dialog_menu,
                file_dialog, file_dialog_ok, window_closed, n_dialog_free>>

vars == <<canvasVars, toolbarVars, dialogVars, n_ops>>

DialogFlags == {"dialog.open_image", "dialog.quit_app", "dialog.to_gray"}

ToolbarFlags == {"open_image", "save_image", "quit_app", "zoom_in",
                 "zoom_out", "draw_circle", "draw_line"}
HoverModes == {"NONE", "IMAGE_SUBSET", "PIXEL_VALUE"}

\* static members definition & initialization of Toolbar
ToolbarInit ==
  /\ toolbar = [f \in ToolbarFlags |-> FALSE]
  /\ hover_mode = "NONE"
  /\ menu = [draw_circle |-> FALSE, draw_line |-> FALSE]
  /\ clicks = [f \in ToolbarFlags \cup DialogFlags |-> 0]
  /\ runs = [f \in ToolbarFlags \cup DialogFlags |-> 0]

\* the state after Dialog::Dialog; it throws ShaderException iff m_program
\* has failed
DialogInit(hasFailed) ==
  /\ d_program = Program(DialogProgramId, hasFailed)
  /\ dialog_ok = ~d_program.failed
  /\ d_image = [inst |-> NumCanvases + 1, ch |-> GrassContent.ch,
                px |-> GrassContent.px]
  /\ d_texture = [id |-> DialogTextureId, ch |-> GrassContent.ch,
                  px |-> GrassContent.px]
  /\ dialog_menu = [open_image |-> FALSE, quit_app |-> FALSE,
                    to_gray |-> FALSE]
  /\ file_dialog = "closed"
  /\ file_dialog_ok = FALSE
  /\ window_closed = FALSE
  /\ n_dialog_free = 0

\* the record of the last two calls, after one more call
Did(calls, name) == <<calls[2], name>>

(* -------------------------- Canvas::Canvas ---------------------------- *)

\* the constructor throws ShaderException iff the program m_program points
\* to (the "color" entry) has failed
ConstructorThrows(programs) == programs["color"].failed

\* the state after constructing every Canvas, `failed[c]` being the keys
\* whose vertex or fragment shader does not compile
CanvasInit(failed) ==
  /\ m_programs = [c \in Canvases |->
       [key \in ProgramKeys |-> Program(ProgramId(c, key), key \in failed[c])]]
  /\ m_program = [c \in Canvases |-> "color"]
  /\ canvas_ok = [c \in Canvases |-> ~ConstructorThrows(m_programs[c])]
  /\ m_image = [c \in Canvases |->
       [inst |-> c, ch |-> NatureContent.ch, px |-> NatureContent.px]]
  /\ m_texture = [c \in Canvases |->
       [id |-> TextureId(c), ch |-> NatureContent.ch, px |-> NatureContent.px]]
  /\ m_zoom = [c \in Canvases |-> FloatOne]
  /\ callback_data = <<0, 0>>
  /\ draw_list = <<>>
  /\ frame = "idle"
  /\ click_mode = "NONE"
  /\ prog_releases = [id \in ProgramIds |-> 0]
  /\ tex_releases = [id \in TextureIds |-> 0]
  /\ image_count = NumCanvases + 1
  /\ image_released = {}
  /\ fs = [p \in Paths |->
       CASE p = NaturePath -> NatureContent
         [] p = GrassPath -> GrassContent
         [] p = GrayPath -> GrayContent
         [] OTHER -> NoData]
  /\ exc = "none"
  /\ last_op = [c \in Canvases |-> <<"", "Canvas">>]
  /\ last_key = [c \in Canvases |-> ""]
  /\ n_ops = 0
  /\ n_free = [c \in Canvases |-> 0]
  /\ n_zoom_in = [c \in Canvases |-> 0]
  /\ n_zoom_out = [c \in Canvases |-> 0]

Init == \E failed \in [Canvases -> SUBSET ProgramKeys] :
          /\ \A c \in Canvases : c # TheCanvas => failed[c] = {}
          /\ CanvasInit(failed)
          /\ ToolbarInit
          /\ DialogInit(FALSE)

(* --------------------------- Canvas methods --------------------------- *)

Content(img) == [ch |-> img.ch, px |-> img.px]

\* Image(path, false): a new instance holding the file's pixels
NewImage(content) ==
  [inst |-> image_count + 1, ch |-> content.ch, px |-> content.px]

\* a set_image that uploads nothing: the texture keeps the pixels it had
set_image_no_upload(texture, img) == texture

\* Texture2D::set_image: copies the image's pixels to the texture
SetImage(texture, img) == [texture EXCEPT !.ch = img.ch, !.px = img.px]

\* a lookup with operator[]: a key that is not present gets a
\* default-constructed Program inserted, which becomes the active one
set_shader_lookup_insert(programs, current, key) ==
  [programs |-> [k \in DOMAIN programs \cup {key} |->
                  IF k \in DOMAIN programs THEN programs[k]
                  ELSE Program(0, FALSE)],
   program |-> key, exc |-> "none"]

\* a lookup that falls back to the default program for an unknown key
set_shader_lookup_fallback(programs, current, key) ==
  IF key \in DOMAIN programs
    THEN [programs |-> programs, program |-> key, exc |-> "none"]
    ELSE [programs |-> programs, program |-> "color", exc |-> "none"]

\* outcome of `m_program = &m_programs.at(key)`: at() throws out_of_range
\* for a key that is not present, before the assignment is made
set_shader_lookup(programs, current, key) ==
  IF key \in DOMAIN programs
    THEN [programs |-> programs, program |-> key, exc |-> "none"]
    ELSE [programs |-> programs, program |-> current, exc |-> "out_of_range"]

Canvas_set_shader(c, key) ==
  /\ canvas_ok[c]
  /\ LET r == set_shader_lookup(m_programs[c], m_program[c], key) IN
       /\ m_programs' = [m_programs EXCEPT ![c] = r.programs]
       /\ m_program' = [m_program EXCEPT ![c] = r.program]
       /\ exc' = r.exc
  /\ last_op' = [last_op EXCEPT ![c] = Did(@, "set_shader")]
  /\ last_key' = [last_key EXCEPT ![c] = key]
  /\ UNCHANGED <<canvas_ok, imageVars, zoomVars, relayVars, glVars,
                 click_mode, toolbarVars, dialogVars>>

\* a to_grayscale that uploads before it assigns: the texture gets the
\* image being replaced
to_grayscale_upload_stale(old, new) == old

\* which image Canvas::to_grayscale hands to m_texture.set_image: the
\* member m_image, after it has been assigned the converted image
to_grayscale_upload(old, new) == new

\* the key Canvas::to_grayscale selects
to_grayscale_key == "monochrome"

Canvas_to_grayscale(c) ==
  /\ canvas_ok[c]
  /\ LET new == NewImage(ToGrayContent(Content(m_image[c])))
         r == set_shader_lookup(m_programs[c], m_program[c], to_grayscale_key)
     IN
       /\ m_image' = [m_image EXCEPT ![c] = new]
       /\ image_count' = image_count + 1
       /\ m_texture' = [m_texture EXCEPT
            ![c] = SetImage(@, to_grayscale_upload(m_image[c], new))]
       /\ m_programs' = [m_programs EXCEPT ![c] = r.programs]
       /\ m_program' = [m_program EXCEPT ![c] = r.program]
       /\ exc' = r.exc
  /\ last_op' = [last_op EXCEPT ![c] = Did(@, "to_grayscale")]
  /\ UNCHANGED <<last_key, canvas_ok, image_released, fs, zoomVars, relayVars, glVars,
                 click_mode, toolbarVars, dialogVars>>

Canvas_blur(c) ==
  /\ canvas_ok[c]
  /\ LET new == NewImage(BlurContent(Content(m_image[c]))) IN
       /\ m_image' = [m_image EXCEPT ![c] = new]
       /\ image_count' = image_count + 1
       /\ m_texture' = [m_texture EXCEPT ![c] = SetImage(@, new)]
  /\ exc' = "none"
  /\ last_op' = [last_op EXCEPT ![c] = Did(@, "blur")]
  /\ UNCHANGED <<last_key, canvas_ok, programVars, image_released, fs, zoomVars,
                 relayVars, glVars, click_mode, toolbarVars, dialogVars>>

Canvas_change_image(c, path) ==
  /\ canvas_ok[c]
  /\ LET new == NewImage(fs[path]) IN
       /\ image_released' = image_released \cup {m_image[c].inst}
       /\ m_image' = [m_image EXCEPT ![c] = new]
       /\ image_count' = image_count + 1
       /\ m_texture' = [m_texture EXCEPT ![c] = SetImage(@, new)]
  /\ exc' = "none"
  /\ last_op' = [last_op EXCEPT ![c] = Did(@, "change_image")]
  /\ UNCHANGED <<last_key, canvas_ok, programVars, fs, zoomVars, relayVars, glVars,
                 click_mode, toolbarVars, dialogVars>>

Canvas_save_image(c, path) ==
  /\ canvas_ok[c]
  /\ fs' = [fs EXCEPT ![path] = Content(m_image[c])]
  /\ exc' = "none"
  /\ last_op' = [last_op EXCEPT ![c] = Did(@, "save_image")]
  /\ UNCHANGED <<last_key, canvas_ok, programVars, m_image, m_texture, image_count,
                 image_released, zoomVars, relayVars, glVars, click_mode,
                 toolbarVars, dialogVars>>

Canvas_draw_circle(c, pos) ==
  /\ canvas_ok[c]
  /\ LET drawn == CircleContent(Content(m_image[c]), pos)
         new == NewImage(drawn)
     IN
       /\ fs' = [fs EXCEPT ![TmpPath] = drawn]
       /\ image_released' = image_released \cup {m_image[c].inst}
       /\ m_image' = [m_image EXCEPT ![c] = new]
       /\ image_count' = image_count + 1
       /\ m_texture' = [m_texture EXCEPT ![c] = SetImage(@, new)]
  /\ click_mode' = "NONE"
  /\ exc' = "none"
  /\ last_op' = [last_op EXCEPT ![c] = Did(@, "draw_circle")]
  /\ UNCHANGED <<last_key, canvas_ok, programVars, zoomVars, relayVars, glVars,
                 toolbarVars, dialogVars>>

\* Texture2D::free / Program::free: one release call on the GL name (names
\* outside the GL name space, such as 0, are ignored)
Release(counts, id) ==
  IF id \in DOMAIN counts THEN [counts EXCEPT ![id] = @ + 1] ELSE counts

\* the GL names of every entry of a program collection
IdsOf(programs) == {programs[key].id : key \in DOMAIN programs}

Canvas_free(c) ==
  /\ canvas_ok[c]
  /\ tex_releases' = Release(tex_releases, m_texture[c].id)
  /\ prog_releases' = [id \in DOMAIN prog_releases |->
       IF id \in IdsOf(m_programs[c])
         THEN Release(prog_releases, id)[id]
         ELSE prog_releases[id]]
  /\ n_free' = [n_free EXCEPT ![c] = @ + 1]
  /\ exc' = "none"
  /\ last_op' = [last_op EXCEPT ![c] = Did(@, "free")]
  /\ UNCHANGED <<last_key, canvas_ok, programVars, imageVars, zoomVars, relayVars,
                 click_mode, toolbarVars, dialogVars>>

Canvas_zoom_in(c) ==
  /\ canvas_ok[c]
  /\ m_zoom' = [m_zoom EXCEPT ![c] = FloatMul2(@)]
  /\ n_zoom_in' = [n_zoom_in EXCEPT ![c] = @ + 1]
  /\ exc' = "none"
  /\ last_op' = [last_op EXCEPT ![c] = Did(@, "zoom_in")]
  /\ UNCHANGED <<last_key, canvas_ok, programVars, imageVars, n_zoom_out, relayVars,
                 glVars, click_mode, toolbarVars, dialogVars>>

Canvas_zoom_out(c) ==
  /\ canvas_ok[c]
  /\ m_zoom' = [m_zoom EXCEPT ![c] = FloatDiv2(@)]
  /\ n_zoom_out' = [n_zoom_out EXCEPT ![c] = @ + 1]
  /\ exc' = "none"
  /\ last_op' = [last_op EXCEPT ![c] = Did(@, "zoom_out")]
  /\ UNCHANGED <<last_key, canvas_ok, programVars, imageVars, n_zoom_in, relayVars,
                 glVars, click_mode, toolbarVars, dialogVars>>

(* ----------------------- render-callback relay ------------------------ *)

\* a use_shader that stores the default program instead of the selected one
use_shader_payload_default(c) == <<m_programs[c]["color"].id, m_texture[c].id>>

\* the pair Canvas::use_shader stores: the ids of the program m_program
\* points to and of m_texture
use_shader_payload(c) == <<m_programs[c][m_program[c]].id, m_texture[c].id>>

Unused == <<0, 0>>

\* draw-list commands; `prog`/`tex` record what the canvas had selected when
\* the command was appended, `used` what the callback read when it ran
CallbackCmd(c) ==
  [kind |-> "callback", owner |-> c,
   prog |-> m_programs[c][m_program[c]].id, tex |-> m_texture[c].id,
   used |-> Unused]
ImageCmd(c) ==
  [kind |-> "image", owner |-> c, prog |-> 0, tex |-> m_texture[c].id,
   used |-> Unused]
ResetCmd(c) ==
  [kind |-> "reset", owner |-> c, prog |-> 0, tex |-> 0, used |-> Unused]

\* a render_image that never calls unuse_shader
render_image_commands_no_reset(c) == <<CallbackCmd(c), ImageCmd(c)>>

\* Canvas::render_image: the commands it appends to the window's draw list:
\* use_shader's callback, the image, unuse_shader's reset (the tooltips it
\* renders in between are windows of their own)
render_image_commands(c) == <<CallbackCmd(c), ImageCmd(c), ResetCmd(c)>>

\* the canvases whose window has been rendered in the frame being built
Rendered == {draw_list[i].owner : i \in 1..Len(draw_list)}

\* Canvas::render: Begin, render_image (use_shader, Image, mouse events,
\* unuse_shader), End
Canvas_render(c, clicked) ==
  /\ canvas_ok[c]
  /\ frame = "build"
  /\ c \notin Rendered
  /\ callback_data' = use_shader_payload(c)
  /\ draw_list' = draw_list \o render_image_commands(c)
  /\ IF clicked /\ click_mode = "DRAW_CIRCLE"
       THEN /\ toolbar' = [toolbar EXCEPT !["draw_circle"] = TRUE]
            /\ menu' = [menu EXCEPT !.draw_circle = TRUE]
            /\ clicks' = [clicks EXCEPT !["draw_circle"] = @ + 1]
       ELSE UNCHANGED <<toolbar, menu, clicks>>
  /\ UNCHANGED <<last_key, canvas_ok, programVars, imageVars, zoomVars, frame, glVars,
                 click_mode, exc, last_op, hover_mode, runs, dialogVars>>

\* ImGui::NewFrame: a new frame starts with empty draw lists
ImGui_NewFrame ==
  /\ frame = "idle"
  /\ frame' = "build"
  /\ draw_list' = <<>>
  /\ UNCHANGED <<last_key, canvas_ok, programVars, imageVars, zoomVars, callback_data,
                 glVars, click_mode, exc, last_op, toolbarVars, dialogVars>>

\* a callback that reads a payload attached to its own command
draw_with_custom_shader_per_command(cmd) == <<cmd.prog, cmd.tex>>

\* Canvas::draw_with_custom_shader: the program and texture ids it builds
\* its handles from
draw_with_custom_shader(cmd) == <<callback_data[1], callback_data[2]>>

\* ImGui::Render + RenderDrawData: runs the frame's commands in order; each
\* callback command invokes draw_with_custom_shader
ImGui_RenderDrawData ==
  /\ frame = "build"
  /\ frame' = "idle"
  /\ draw_list' = [i \in 1..Len(draw_list) |->
       IF draw_list[i].kind = "callback"
         THEN [draw_list[i] EXCEPT !.used = draw_with_custom_shader(draw_list[i])]
         ELSE draw_list[i]]
  /\ UNCHANGED <<last_key, canvas_ok, programVars, imageVars, zoomVars, callback_data,
                 glVars, click_mode, exc, last_op, toolbarVars, dialogVars>>

(* ------------------------------ Toolbar ------------------------------- *)

ModeFlags == {"draw_circle", "draw_line"}

\* Toolbar::render: `button` is the button clicked in this frame ("none":
\* no click), `radio` the hover-mode radio button that is selected after it;
\* the two drawing buttons are disabled while their flag is set
Toolbar_render(button, radio) ==
  /\ IF button \in ToolbarFlags /\ ~(button \in ModeFlags /\ toolbar[button])
       THEN /\ toolbar' = [toolbar EXCEPT ![button] = TRUE]
            /\ clicks' = [clicks EXCEPT ![button] = @ + 1]
            /\ menu' = [draw_circle |-> menu.draw_circle \/ button = "draw_circle",
                        draw_line |-> menu.draw_line \/ button = "draw_line"]
       ELSE UNCHANGED <<toolbar, clicks, menu>>
  /\ hover_mode' = radio
  /\ UNCHANGED <<canvasVars, dialogVars, runs>>

\* the frame loop's listeners: every flag that is set has its command run
\* and is reset
Listeners_consume ==
  /\ \E f \in ToolbarFlags : toolbar[f]
  /\ runs' = [f \in DOMAIN runs |->
       IF f \in ToolbarFlags /\ toolbar[f] THEN runs[f] + 1 ELSE runs[f]]
  /\ toolbar' = [f \in ToolbarFlags |-> FALSE]
  /\ UNCHANGED <<canvasVars, dialogVars, hover_mode, menu, clicks>>

(* ------------------------------- Dialog ------------------------------- *)

DialogOwner == 0
MenuItems == {"open_image", "quit_app", "to_gray"}
\* what the user did in the file dialog during the frame: nothing, Cancel,
\* or OK on a path (a file that loads, or one that does not)
FileDialogInputs == {"none", "cancel", GrayPath, MissingPath}

\* counting a run of a command; a command that runs frame after frame is
\* counted up to one more than there can be clicks
CountRun(n) == IF n <= MaxClicks THEN n + 1 ELSE n

\* a listener of open_image that forgets to reset the flag
open_image_left_set(flag) == flag

\* render_menu's listener of open_image: the flag after it
open_image_consumed(flag) == FALSE

\* render_menu's listener of quit_app: the flag after it (left as it is)
quit_app_consumed(flag) == flag

\* render_menu's listener of to_gray: the flag after it
to_gray_consumed(flag) == FALSE

\* ImGui::MenuItem(label, NULL, &flag): a click toggles the flag
MenuItem(flag, clicked) == IF clicked THEN ~flag ELSE flag

\* Dialog::render: NewFrame, Begin, AddCallback with the pair made of
\* m_program and m_texture, render_components (Image, render_menu),
\* AddCallback(ResetRenderState), End, Render, RenderDrawData
Dialog_render(item, input) ==
  /\ dialog_ok
  /\ n_dialog_free = 0
  /\ frame = "idle"
  /\ LET payload == <<d_program.id, d_texture.id>>
         \* listener of open_image
         opened == dialog_menu.open_image
         \* Display(): the dialog that was open is answered in this frame
         answered == file_dialog = "open" /\ input # "none"
         isOk == answered /\ input \in Paths
         loaded == [inst |-> image_count + 1,
                    ch |-> fs[input].ch, px |-> fs[input].px]
         image1 == IF isOk THEN loaded ELSE d_image
         count1 == IF isOk THEN image_count + 1 ELSE image_count
         \* listener of to_gray
         gray == dialog_menu.to_gray
         converted == [inst |-> count1 + 1,
                       ch |-> ToGrayContent(Content(image1)).ch,
                       px |-> ToGrayContent(Content(image1)).px]
         image2 == IF gray THEN converted ELSE image1
         \* listener of quit_app
         quit == dialog_menu.quit_app
     IN
       /\ draw_list' =
            << [kind |-> "callback", owner |-> DialogOwner,
                prog |-> payload[1], tex |-> payload[2], used |-> payload],
               [kind |-> "image", owner |-> DialogOwner, prog |-> 0,
                tex |-> d_texture.id, used |-> Unused],
               [kind |-> "reset", owner |-> DialogOwner, prog |-> 0,
                tex |-> 0, used |-> Unused] >>
       /\ file_dialog' = IF answered THEN "closed"
                         ELSE IF opened THEN "open" ELSE file_dialog
       /\ file_dialog_ok' = IF answered THEN isOk ELSE file_dialog_ok
       /\ image_released' = IF isOk THEN image_released \cup {d_image.inst}
                            ELSE image_released
       /\ d_image' = image2
       /\ image_count' = IF gray THEN count1 + 1 ELSE count1
       /\ d_texture' = IF isOk \/ gray THEN SetImage(d_texture, image2)
                       ELSE d_texture
       /\ window_closed' = (window_closed \/ quit)
       /\ dialog_menu' =
            [open_image |->
               MenuItem(IF opened THEN open_image_consumed(dialog_menu.open_image)
                        ELSE dialog_menu.open_image, item = "open_image"),
             quit_app |->
               MenuItem(IF quit THEN quit_app_consumed(dialog_menu.quit_app)
                        ELSE dialog_menu.quit_app, item = "quit_app"),
             to_gray |->
               MenuItem(IF gray THEN to_gray_consumed(dialog_menu.to_gray)
                        ELSE dialog_menu.to_gray, item = "to_gray")]
       /\ runs' = [runs EXCEPT
            !["dialog.open_image"] = IF opened THEN CountRun(@) ELSE @,
            !["dialog.to_gray"] = IF gray THEN CountRun(@) ELSE @,
            !["dialog.quit_app"] = IF quit THEN CountRun(@) ELSE @]
       /\ clicks' = [f \in DOMAIN clicks |->
            IF item \in MenuItems /\ f = "dialog." \o item
              THEN clicks[f] + 1 ELSE clicks[f]]
  /\ UNCHANGED <<canvas_ok, programVars, m_image, m_texture, fs, zoomVars,
                 callback_data, frame, glVars, click_mode, exc, last_op,
                 last_key, toolbar, hover_mode, menu, dialog_ok, d_program,
                 n_dialog_free>>

\* Dialog::free: shuts ImGui down, releases the texture and the program
Dialog_free ==
  /\ dialog_ok
  /\ n_dialog_free' = n_dialog_free + 1
  /\ tex_releases' = Release(tex_releases, d_texture.id)
  /\ prog_releases' = Release(prog_releases, d_program.id)
  /\ UNCHANGED <<canvas_ok, programVars, imageVars, zoomVars, relayVars,
                 n_free, click_mode, exc, last_op, last_key, toolbarVars,
                 dialog_ok, d_program, d_image, d_texture, dialog_menu,
                 file_dialog, file_dialog_ok, window_closed>>

(* --------------------- the application's canvas ----------------------- *)

\* one more Canvas call, within the explored number of calls
Call == n_ops < MaxOps /\ n_ops' = n_ops + 1

SetShader == \E key \in RequestKeys : Call /\ Canvas_set_shader(TheCanvas, key)
ToGrayscale == Call /\ Canvas_to_grayscale(TheCanvas)
Blur == Call /\ Canvas_blur(TheCanvas)
ChangeImage == \E path \in {GrayPath, MissingPath, TmpPath} :
                 Call /\ Canvas_change_image(TheCanvas, path)
SaveImage == \E path \in {GrayPath, TmpPath} :
               Call /\ Canvas_save_image(TheCanvas, path)
DrawCircle == \E pos \in MousePositions :
                Call /\ Canvas_draw_circle(TheCanvas, pos)
Free == Call /\ Canvas_free(TheCanvas)
ZoomIn == Call /\ Canvas_zoom_in(TheCanvas)
ZoomOut == Call /\ Canvas_zoom_out(TheCanvas)
Render == \E clicked \in BOOLEAN :
            Canvas_render(TheCanvas, clicked) /\ UNCHANGED n_ops
NewFrame == ImGui_NewFrame /\ UNCHANGED n_ops
RenderDrawData == ImGui_RenderDrawData /\ UNCHANGED n_ops

Next ==
  \/ SetShader
  \/ ToGrayscale
  \/ Blur
  \/ ChangeImage
  \/ SaveImage
  \/ DrawCircle
  \/ Free
  \/ ZoomIn
  \/ ZoomOut
  \/ Render
  \/ NewFrame
  \/ RenderDrawData

Spec == Init /\ [][Next]_vars

(* ------------------ several canvases in one frame --------------------- *)

InitRelay ==
  /\ CanvasInit([c \in Canvases |-> {}])
  /\ ToolbarInit
  /\ DialogInit(FALSE)

RelaySetShader == \E c \in Canvases, key \in ProgramKeys :
                    Canvas_set_shader(c, key) /\ UNCHANGED n_ops
RelayRender == \E c \in Canvases :
                 Canvas_render(c, FALSE) /\ UNCHANGED n_ops

NextRelay ==
  \/ RelaySetShader
  \/ RelayRender
  \/ NewFrame
  \/ RenderDrawData

SpecRelay == InitRelay /\ [][NextRelay]_vars

(* ------------------------------ zooming ------------------------------- *)

ZoomInStep == /\ n_zoom_in[TheCanvas] < MaxZoomSteps
              /\ Canvas_zoom_in(TheCanvas)
              /\ UNCHANGED n_ops
ZoomOutStep == /\ n_zoom_out[TheCanvas] < MaxZoomSteps
               /\ Canvas_zoom_out(TheCanvas)
               /\ UNCHANGED n_ops

NextZoom == ZoomInStep \/ ZoomOutStep

SpecZoom == InitRelay /\ [][NextZoom]_vars

(* ------------------------ toolbar and dialog -------------------------- *)

InitUI == \E hasFailed \in BOOLEAN :
            /\ CanvasInit([c \in Canvases |-> {}])
            /\ ToolbarInit
            /\ DialogInit(hasFailed)

RECURSIVE SumOver(_, _)
SumOver(f, S) ==
  IF S = {} THEN 0
  ELSE LET x == CHOOSE y \in S : TRUE IN f[x] + SumOver(f, S \ {x})

\* number of clicks made so far
TotalClicks == SumOver(clicks, DOMAIN clicks)

ToolbarRender ==
  \E button \in ToolbarFlags \cup {"none"}, radio \in HoverModes :
    /\ button # "none" => (radio = hover_mode /\ TotalClicks < MaxClicks)
    \* the frame loop has run its listeners since the last Toolbar::render
    /\ \A f \in ToolbarFlags : ~toolbar[f]
    /\ Toolbar_render(button, radio)
    /\ UNCHANGED n_ops
ListenersConsume == Listeners_consume /\ UNCHANGED n_ops
DialogRender ==
  \E item \in MenuItems \cup {"none"}, input \in FileDialogInputs :
    /\ item # "none" => TotalClicks < MaxClicks
    /\ Dialog_render(item, input)
    /\ UNCHANGED n_ops
DialogFree == Call /\ Dialog_free

NextUI ==
  \/ ToolbarRender
  \/ ListenersConsume
  \/ DialogRender
  \/ DialogFree

SpecUI == InitUI /\ [][NextUI]_vars

(* ------------------- the two views and their frames ------------------- *)

\* a frame of the dialog; a click on one of its menu items counts as one
\* of the explored operations
ViewsDialogRender ==
  \E item \in MenuItems \cup {"none"}, input \in FileDialogInputs :
    /\ IF item # "none" THEN Call ELSE UNCHANGED n_ops
    /\ Dialog_render(item, input)

NextViews ==
  \/ ToGrayscale
  \/ Blur
  \/ ChangeImage
  \/ DrawCircle
  \/ RelayRender
  \/ NewFrame
  \/ RenderDrawData
  \/ ViewsDialogRender

SpecViews == InitRelay /\ [][NextViews]_vars

(* ------------------------------ claims -------------------------------- *)

\* the callback commands of the frame's draw list
Callbacks == {i \in 1..Len(draw_list) : draw_list[i].kind = "callback"}
\* RenderDrawData has run the frame's commands
Executed == frame = "idle" /\ Callbacks # {}
\* the callback queued last in the frame
LastCallback == CHOOSE i \in Callbacks : \A j \in Callbacks : j <= i

\* C1: in a frame in which a single canvas was rendered, every callback
\* invocation used exactly the (program id, texture id) pair the canvas had
\* selected when use_shader queued the callback.
C1_CallbackUsesQueuedPair ==
  (Executed /\ Cardinality(Rendered) = 1) =>
    \A i \in Callbacks :
      draw_list[i].used = <<draw_list[i].prog, draw_list[i].tex>>

\* C1 witness: a callback ran after its canvas had already switched to
\* another program, and still used the pair selected when it was queued.
C1_Witness ==
  /\ Executed
  /\ Cardinality(Rendered) = 1
  /\ \E i \in Callbacks :
       LET c == draw_list[i].owner IN
         /\ draw_list[i].prog = m_programs[c]["grayscale"].id
         /\ m_program[c] = "monochrome"
         /\ draw_list[i].used = <<draw_list[i].prog, draw_list[i].tex>>

\* C2: callback_data is a single slot: every callback invocation of a frame
\* used the pair stored by the last use_shader of that frame, so a callback
\* queued before another use_shader observes the later pair.
C2_CallbacksUseLastPair ==
  Executed =>
    \A i \in Callbacks :
      draw_list[i].used =
        <<draw_list[LastCallback].prog, draw_list[LastCallback].tex>>

\* C2 witness: two canvases were rendered in one frame and the callback
\* queued first ran with the second canvas's pair, not with its own.
C2_Witness ==
  /\ Executed
  /\ \E i, j \in Callbacks :
       /\ i < j
       /\ draw_list[i].owner # draw_list[j].owner
       /\ draw_list[i].used = <<draw_list[j].prog, draw_list[j].tex>>
       /\ draw_list[i].used # <<draw_list[i].prog, draw_list[i].tex>>

\* the entry m_program points to is in the collection and its GL program
\* has not been released
ActiveProgramLive(c) ==
  /\ m_program[c] \in DOMAIN m_programs[c]
  /\ m_programs[c][m_program[c]].id \in ProgramIds
  /\ prog_releases[m_programs[c][m_program[c]].id] = 0

\* C3 (as stated): in every reachable state of a constructed Canvas,
\* Canvas::free included, m_program refers to a live entry of m_programs.
C3_ActiveProgramAlwaysLive ==
  \A c \in Canvases : canvas_ok[c] => ActiveProgramLive(c)

\* C3 (amended): m_program always refers to an entry present in m_programs,
\* and that entry is unreleased exactly as long as Canvas::free has not been
\* called on the canvas.
C3_ActiveProgramLiveUntilFree ==
  \A c \in Canvases : canvas_ok[c] =>
    /\ m_program[c] \in DOMAIN m_programs[c]
    /\ ActiveProgramLive(c) <=> n_free[c] = 0

\* C3 witness: the canvas has switched program through to_grayscale and
\* set_shader and has not been freed.
C3_Witness ==
  /\ canvas_ok[TheCanvas]
  /\ last_op[TheCanvas] = <<"to_grayscale", "set_shader">>
  /\ m_program[TheCanvas] = "grayscale"
  /\ n_free[TheCanvas] = 0
  /\ ActiveProgramLive(TheCanvas)

\* the Image instances that are some view's current image
CurrentImages == {m_image[c].inst : c \in Canvases} \cup {d_image.inst}

\* C4: after any sequence of edit operations no Image instance other than
\* a current one remains unreleased.
C4_NoEarlierImageUnreleased ==
  \A inst \in 1..image_count :
    inst \in CurrentImages \/ inst \in image_released

\* a Canvas call was made on c by this step, and it was `name`
Called(c, name) == n_ops' = n_ops + 1 /\ last_op'[c][2] = name

\* C6: set_shader with a key that is not in m_programs throws out_of_range
\* and leaves m_program and m_programs as they were.
C6_SetShaderUnknownKeyThrows ==
  [][\A c \in Canvases :
       (Called(c, "set_shader") /\ last_key'[c] \notin DOMAIN m_programs[c])
         => /\ exc' = "out_of_range"
            /\ m_program'[c] = m_program[c]
            /\ m_programs'[c] = m_programs[c]]_vars

\* C6 witness: set_shader("sepia") was called on a canvas showing the
\* grayscale program, threw, and the grayscale program is still active.
C6_Witness ==
  /\ last_op[TheCanvas] = <<"set_shader", "set_shader">>
  /\ last_key[TheCanvas] = "sepia"
  /\ exc = "out_of_range"
  /\ m_program[TheCanvas] = "grayscale"
  /\ DOMAIN m_programs[TheCanvas] = ProgramKeys

\* C7: a successfully constructed Canvas never has a program selected whose
\* compilation failed.
C7_NoFailedProgramSelected ==
  \A c \in Canvases :
    canvas_ok[c] => ~m_programs[c][m_program[c]].failed

\* C9: no texture or program name is released more than once.
C9_NoHandleReleasedTwice ==
  /\ \A id \in ProgramIds : prog_releases[id] <= 1
  /\ \A id \in TextureIds : tex_releases[id] <= 1

C8_ZoomRestoresExactly ==
  \A c \in Canvases :
    /\ m_zoom[c].kind = "pow2"
    /\ n_zoom_in[c] = n_zoom_out[c] => m_zoom[c] = FloatOne

\* C8 (amended): as long as m_zoom has stayed finite and non-zero it is
\* exactly 2^(zoom_in calls - zoom_out calls), within [2^-149, 2^127], so
\* equal counts restore exactly 1.0 (a scale that has overflowed to +inf or
\* underflowed to 0 is not a power of two and is covered by no promise).
C8_ZoomExactWithinFloatRange ==
  \A c \in Canvases :
    m_zoom[c].kind = "pow2" =>
      /\ m_zoom[c].exp = n_zoom_in[c] - n_zoom_out[c]
      /\ m_zoom[c].exp \in FloatMinExp..FloatMaxExp
      /\ n_zoom_in[c] = n_zoom_out[c] => m_zoom[c] = FloatOne

\* C8 witness: zoom_out was the last of as many zoom_in as zoom_out calls,
\* more than one of each, and the scale is 1.0 again.
C8_Witness ==
  /\ n_zoom_in[TheCanvas] = n_zoom_out[TheCanvas]
  /\ n_zoom_in[TheCanvas] > 2
  /\ last_op[TheCanvas] = <<"zoom_in", "zoom_out">>
  /\ m_zoom[TheCanvas] = FloatOne

\* the value of a command flag
FlagSet(f) ==
  CASE f \in ToolbarFlags -> toolbar[f]
    [] f = "dialog.open_image" -> dialog_menu.open_image
    [] f = "dialog.quit_app" -> dialog_menu.quit_app
    [] f = "dialog.to_gray" -> dialog_menu.to_gray

\* every click on f has run f's command once, except for a click whose
\* flag is still set, waiting to be consumed
OncePerClick(f) == runs[f] + (IF FlagSet(f) THEN 1 ELSE 0) = clicks[f]

ViewsInSync ==
  /\ \A c \in Canvases : Content(m_texture[c]) = Content(m_image[c])
  /\ Content(d_texture) = Content(d_image)

\* a frame in which the open file dialog is closed without OK, and in which
\* no to-gray is pending
ClosedWithoutOk ==
  /\ file_dialog = "open"
  /\ file_dialog' = "closed"
  /\ ~file_dialog_ok'
  /\ ~dialog_menu.to_gray

\* C11: after every operation each view's texture holds a copy of the
\* view's current image (so after change_image, to_grayscale, blur,
\* draw_circle, the dialog's confirmed file-open and its to-gray the texture
\* never shows a previous image), and a frame that closes the file dialog
\* without OK leaves the dialog's image and texture unchanged.
C11_TextureHoldsCurrentImage ==
  /\ []ViewsInSync
  /\ [][ClosedWithoutOk => (d_image' = d_image /\ d_texture' = d_texture)]_vars

\* the canvas drew a circle; the dialog replaced its first image by a file
\* (OK), and a second file dialog was then closed without OK
C11_Witness ==
  /\ last_op[TheCanvas][2] = "draw_circle"
  /\ Content(m_texture[TheCanvas]) = Content(m_image[TheCanvas])
  /\ Content(m_image[TheCanvas]) # NatureContent
  /\ (NumCanvases + 1) \in image_released
  /\ d_image.inst # NumCanvases + 1
  /\ Content(d_texture) = Content(d_image)
  /\ runs["dialog.open_image"] = 2
  /\ file_dialog = "closed"
  /\ ~file_dialog_ok

\* the reset commands of the frame's draw list
Resets == {i \in 1..Len(draw_list) : draw_list[i].kind = "reset"}

\* C12: in the draw list of every frame, each custom-shader callback is
\* followed by its view's image command and then by its view's
\* ResetRenderState command; callbacks and resets alternate, and the list
\* never ends with the custom program active.
C12_ResetFollowsEachCallback ==
  /\ \A i \in Callbacks :
       /\ i + 2 <= Len(draw_list)
       /\ draw_list[i + 1].kind = "image"
       /\ draw_list[i + 1].owner = draw_list[i].owner
       /\ draw_list[i + 2].kind = "reset"
       /\ draw_list[i + 2].owner = draw_list[i].owner
  /\ \A i, j \in Callbacks :
       i < j => \E k \in Resets : i < k /\ k < j
  /\ \A k \in Resets :
       \E i \in Callbacks : i < k /\ \A r \in Resets : r < k => r < i
  /\ draw_list # <<>> => draw_list[Len(draw_list)].kind = "reset"

\* a rendered frame of two canvases, the first one after a to_grayscale:
\* two callbacks, each followed by an image and a reset
C12_Witness ==
  /\ frame = "idle"
  /\ Cardinality(Callbacks) = 2
  /\ Cardinality(Resets) = 2
  /\ \A i \in Callbacks : draw_list[i].used # Unused
  /\ last_op[TheCanvas][2] = "to_grayscale"

====
